---- MODULE Spec2Model ----
(***************************************************************************)
(* A model of the blog CRUD service of fastapi_web: the `blogs` table, the *)
(* five route handlers of api/v1/routes/blog.py and the BlogUpdate schema  *)
(* of api/v1/schemas/blog.py.                                              *)
(*                                                                         *)
(* The table is a sequence of rows, a row's id being its index (the        *)
(* autoincrement primary key).  Every handler is one action: its queries,  *)
(* its assignments, its commit and the HTTP response its except clauses    *)
(* produce.  `resp` holds the last request's operation, its target and     *)
(* the response the client received.  `inflight` holds the PATCH requests  *)
(* the threadpool is running (update_blog is a plain `def`, which FastAPI  *)
(* runs in a worker thread): under Spec every request runs alone and it    *)
(* stays idle; under SpecConc one update's queries and its commit are      *)
(* separate steps, and other requests run between them.  `req` is the      *)
(* request log of the runs that keep one (SpecPatch, SpecPage, SpecFault,  *)
(* SpecValid): the last request as the client sent it; Spec and SpecConc   *)
(* keep no log.  `walk` is what a client of SpecPage has collected that    *)
(* reads the list page after page.  Under SpecRace `inflight` also holds   *)
(* the POST and DELETE requests of two server processes between their      *)
(* statements.  `session` is the scoped session get_db hands to the        *)
(* requests of SpecSession, with what an earlier request has left in it.   *)
(***************************************************************************)
EXTENDS Integers, Sequences, FiniteSets, TLC

VARIABLES store, resp, inflight, req, walk, session

vars == <<store, resp, inflight, req, walk, session>>

(***************************************************************************)
(* Bounds of the model.                                                    *)
(***************************************************************************)
MaxRows == 3
MaxTime == 1
MaxPage == 2
MaxPageSize == 2

(***************************************************************************)
(* Input values.  The strings stand for values that pass the schema's      *)
(* length validation; None is Python's None.                               *)
(***************************************************************************)
None == "None"
Titles == {"title-a", "title-b"}
Excerpts == {"excerpt-a", "excerpt-b"}
Contents == {"content-a"}
ImageUrls == {"image-a"}
Times == 0..MaxTime
\* The ids a request may address: every row's, and one that never existed.
Ids(rows) == 1..(Len(rows) + 1)
Fields == {"title", "excerpt", "content", "image_url", "is_deleted"}

(***************************************************************************)
(* HTTP status codes and details of the routes.                            *)
(***************************************************************************)
HTTP_200_OK == 200
HTTP_201_CREATED == 201
HTTP_204_NO_CONTENT == 204
HTTP_404_NOT_FOUND == 404
HTTP_409_CONFLICT == 409
HTTP_422_UNPROCESSABLE_ENTITY == 422
HTTP_500_INTERNAL_SERVER_ERROR == 500

DuplicateTitleDetail == "A blog post with this title already exists."
NotFoundDetail == "Blog post not found."
DeleteNotFoundDetail == "Blog post with given id not found."
DatabaseErrorDetail == "Database error occurred."
InternalErrorDetail == "Internal server error."
UnexpectedErrorDetail == "Unexpected error occurred."
ValidationErrorDetail == "validation error"
NoDetail == ""

(***************************************************************************)
(* The Blog model: one row of the blogs table.  is_deleted defaults to     *)
(* False; created_at and updated_at take the server's now() at insert.     *)
(***************************************************************************)
Blog(id, title, excerpt, content, image_url, now) ==
    [id |-> id, title |-> title, excerpt |-> excerpt, content |-> content,
     image_url |-> image_url, is_deleted |-> FALSE,
     created_at |-> now, updated_at |-> now]

(***************************************************************************)
(* Request bodies.  BlogCreate carries the four required fields and the    *)
(* optional is_deleted.  BlogUpdate has every field optional; fields_set   *)
(* is the set of fields the client supplied, the others hold their         *)
(* defaults (None, and False for is_deleted).                              *)
(***************************************************************************)
BlogCreate ==
    [title : Titles, excerpt : Excerpts, content : Contents,
     image_url : ImageUrls, is_deleted : BOOLEAN]

BlogUpdate ==
    { b \in [title : Titles \cup {None}, excerpt : Excerpts \cup {None},
             content : Contents \cup {None}, image_url : ImageUrls \cup {None},
             is_deleted : BOOLEAN, fields_set : SUBSET Fields] :
        /\ ("title" \in b.fields_set) <=> (b.title # None)
        /\ ("excerpt" \in b.fields_set) <=> (b.excerpt # None)
        /\ ("content" \in b.fields_set) <=> (b.content # None)
        /\ ("image_url" \in b.fields_set) <=> (b.image_url # None)
        /\ ("is_deleted" \notin b.fields_set) => (b.is_deleted = FALSE) }

\* blog_update.model_dump(exclude_unset=True): the supplied fields only.
model_dump(blog_update) == blog_update.fields_set

(***************************************************************************)
(* The clock: now() never runs backwards, so it is at least the latest     *)
(* timestamp written to the table.                                         *)
(***************************************************************************)
Max(S) == CHOOSE x \in S : \A y \in S : y <= x

LastStamp(rows) ==
    Max({0} \cup {rows[i].created_at : i \in DOMAIN rows}
            \cup {rows[i].updated_at : i \in DOMAIN rows})

Now(rows) == LastStamp(rows)..MaxTime

(***************************************************************************)
(* Queries of the handlers on the blogs table, as sets of row ids.         *)
(***************************************************************************)
\* db.query(Blog).filter(Blog.title == title): create's check, no is_deleted filter.
query_title(rows, title) ==
    {i \in DOMAIN rows : rows[i].title = title}

\* update's check with a title query that finds no row.
query_active_title_none(rows, title) ==
    {}

\* db.query(Blog).filter(Blog.title == title, not_(Blog.is_deleted)): update's check.
query_active_title(rows, title) ==
    {i \in DOMAIN rows : rows[i].title = title /\ ~rows[i].is_deleted}

\* The lookup by id without its not_(Blog.is_deleted) filter.
query_id_unfiltered(rows, id) ==
    {i \in DOMAIN rows : rows[i].id = id}

\* db.query(Blog).filter(Blog.id == id, not_(Blog.is_deleted)): read, update, delete.
query_active_id(rows, id) ==
    {i \in DOMAIN rows : rows[i].id = id /\ ~rows[i].is_deleted}

\* The list query without its not_(Blog.is_deleted) filter.
query_all(rows) ==
    DOMAIN rows

\* db.query(Blog).filter(not_(Blog.is_deleted)): list.
query_active(rows) ==
    {i \in DOMAIN rows : ~rows[i].is_deleted}

(***************************************************************************)
(* The table's constraints, checked by the database when a commit flushes: *)
(* UNIQUE(title) over all rows, deleted or not, and NOT NULL columns.      *)
(***************************************************************************)
\* A blogs table created without UNIQUE(title).
UniqueConstraint_dropped(rows) ==
    TRUE

UniqueConstraint(rows) ==
    \A i, j \in DOMAIN rows : rows[i].title = rows[j].title => i = j

NotNullConstraint(rows) ==
    \A i \in DOMAIN rows :
        /\ rows[i].title # None
        /\ rows[i].excerpt # None
        /\ rows[i].content # None
        /\ rows[i].image_url # None

\* db.commit() raises IntegrityError, a SQLAlchemyError, when a constraint fails.
IntegrityError(rows) ==
    ~(UniqueConstraint(rows) /\ NotNullConstraint(rows))

(***************************************************************************)
(* Exceptions raised in a handler's try block, and the responses.          *)
(***************************************************************************)
HTTPException(status_code, detail) ==
    [kind |-> "HTTPException", status_code |-> status_code, detail |-> detail]

SQLAlchemyError ==
    [kind |-> "SQLAlchemyError", status_code |-> 0, detail |-> NoDetail]

\* An exception that is neither an HTTPException nor a SQLAlchemyError.
Exception ==
    [kind |-> "Exception", status_code |-> 0, detail |-> NoDetail]

\* next_page = None, prev_page = None
NoUrl == None
NoBody == <<>>

\* A successful response of status_code, with the record or the page it carries.
Success(op, id, title, status_code, body) ==
    [op |-> op, id |-> id, title |-> title, status |-> status_code,
     detail |-> NoDetail, body |-> body,
     count |-> 0, next |-> NoUrl, previous |-> NoUrl, results |-> <<>>]

\* The response FastAPI sends for an HTTPException that leaves the handler.
Failure(op, id, title, exc) ==
    [op |-> op, id |-> id, title |-> title, status |-> exc.status_code,
     detail |-> exc.detail, body |-> NoBody,
     count |-> 0, next |-> NoUrl, previous |-> NoUrl, results |-> <<>>]

\* BlogResponseSchema(id=..., title=..., ...): is_deleted is not passed and
\* takes the schema's default.
BlogResponseSchema(blog) ==
    <<[id |-> blog.id, title |-> blog.title, excerpt |-> blog.excerpt,
       content |-> blog.content, image_url |-> blog.image_url,
       is_deleted |-> FALSE,
       created_at |-> blog.created_at, updated_at |-> blog.updated_at]>>

\* BlogResponseSchema.model_validate(blog.__dict__): every column of the row.
model_validate(blog) ==
    <<[id |-> blog.id, title |-> blog.title, excerpt |-> blog.excerpt,
       content |-> blog.content, image_url |-> blog.image_url,
       is_deleted |-> blog.is_deleted,
       created_at |-> blog.created_at, updated_at |-> blog.updated_at]>>

(***************************************************************************)
(* The except clauses of each handler map an exception raised in its try   *)
(* block to the HTTPException that leaves the handler.  An HTTPException   *)
(* is an Exception: a handler with no `except HTTPException` clause        *)
(* catches its own 404 in `except Exception`.                              *)
(***************************************************************************)
\* create_blog without its `except HTTPException` clause.
create_blog_except_no_http_clause(exc) ==
    CASE exc.kind = "SQLAlchemyError" ->
            HTTPException(HTTP_500_INTERNAL_SERVER_ERROR, DatabaseErrorDetail)
      [] OTHER -> HTTPException(HTTP_500_INTERNAL_SERVER_ERROR, InternalErrorDetail)

create_blog_except(exc) ==
    CASE exc.kind = "HTTPException" -> exc
      [] exc.kind = "SQLAlchemyError" ->
            HTTPException(HTTP_500_INTERNAL_SERVER_ERROR, DatabaseErrorDetail)
      [] OTHER -> HTTPException(HTTP_500_INTERNAL_SERVER_ERROR, InternalErrorDetail)

list_blog_except(exc) ==
    CASE exc.kind = "SQLAlchemyError" ->
            HTTPException(HTTP_500_INTERNAL_SERVER_ERROR, DatabaseErrorDetail)
      [] OTHER -> HTTPException(HTTP_500_INTERNAL_SERVER_ERROR, InternalErrorDetail)

read_blog_except(exc) ==
    CASE exc.kind = "SQLAlchemyError" ->
            HTTPException(HTTP_500_INTERNAL_SERVER_ERROR, DatabaseErrorDetail)
      [] OTHER -> HTTPException(HTTP_500_INTERNAL_SERVER_ERROR, UnexpectedErrorDetail)

\* update_blog without its `except HTTPException` clause.
update_blog_except_no_http_clause(exc) ==
    CASE exc.kind = "SQLAlchemyError" ->
            HTTPException(HTTP_500_INTERNAL_SERVER_ERROR, DatabaseErrorDetail)
      [] OTHER -> HTTPException(HTTP_500_INTERNAL_SERVER_ERROR, InternalErrorDetail)

update_blog_except(exc) ==
    CASE exc.kind = "HTTPException" -> exc
      [] exc.kind = "SQLAlchemyError" ->
            HTTPException(HTTP_500_INTERNAL_SERVER_ERROR, DatabaseErrorDetail)
      [] OTHER -> HTTPException(HTTP_500_INTERNAL_SERVER_ERROR, InternalErrorDetail)

delete_blog_except(exc) ==
    CASE exc.kind = "SQLAlchemyError" ->
            HTTPException(HTTP_500_INTERNAL_SERVER_ERROR, DatabaseErrorDetail)
      [] OTHER -> HTTPException(HTTP_500_INTERNAL_SERVER_ERROR, InternalErrorDetail)

(***************************************************************************)
(* POST /api/v1/blogs                                                      *)
(***************************************************************************)
\* A create that builds the row from every field of the body:
\* Blog(**blog.model_dump()).
create_blog_from_model_dump(blog, now) ==
    LET existing_blog == query_title(store, blog.title)
        new_blog == [Blog(Len(store) + 1, blog.title, blog.excerpt,
                          blog.content, blog.image_url, now)
                        EXCEPT !.is_deleted = blog.is_deleted]
        rows == Append(store, new_blog)
    IN  IF existing_blog # {}
        THEN /\ store' = store
             /\ resp' = Failure("create", 0, blog.title,
                    create_blog_except(
                        HTTPException(HTTP_409_CONFLICT, DuplicateTitleDetail)))
        ELSE /\ Len(store) < MaxRows
             /\ IF IntegrityError(rows)
                THEN /\ store' = store
                     /\ resp' = Failure("create", 0, blog.title,
                                        create_blog_except(SQLAlchemyError))
                ELSE /\ store' = rows
                     /\ resp' = Success("create", new_blog.id, blog.title,
                                        HTTP_201_CREATED,
                                        BlogResponseSchema(new_blog))

\* A create whose INSERT takes the id of a soft-deleted row when there is one.
create_blog_reusing_id(blog, now) ==
    LET existing_blog == query_title(store, blog.title)
        free == {i \in DOMAIN store : store[i].is_deleted}
        new_blog == Blog(IF free # {} THEN CHOOSE i \in free : TRUE
                         ELSE Len(store) + 1,
                         blog.title, blog.excerpt,
                         blog.content, blog.image_url, now)
        rows == Append(store, new_blog)
    IN  IF existing_blog # {}
        THEN /\ store' = store
             /\ resp' = Failure("create", 0, blog.title,
                    create_blog_except(
                        HTTPException(HTTP_409_CONFLICT, DuplicateTitleDetail)))
        ELSE /\ Len(store) < MaxRows
             /\ IF IntegrityError(rows)
                THEN /\ store' = store
                     /\ resp' = Failure("create", 0, blog.title,
                                        create_blog_except(SQLAlchemyError))
                ELSE /\ store' = rows
                     /\ resp' = Success("create", new_blog.id, blog.title,
                                        HTTP_201_CREATED,
                                        BlogResponseSchema(new_blog))

create_blog(blog, now) ==
    LET existing_blog == query_title(store, blog.title)
        new_blog == Blog(Len(store) + 1, blog.title, blog.excerpt,
                         blog.content, blog.image_url, now)
        rows == Append(store, new_blog)
    IN  IF existing_blog # {}
        THEN /\ store' = store
             /\ resp' = Failure("create", 0, blog.title,
                    create_blog_except(
                        HTTPException(HTTP_409_CONFLICT, DuplicateTitleDetail)))
        ELSE /\ Len(store) < MaxRows
             /\ IF IntegrityError(rows)
                THEN /\ store' = store
                     /\ resp' = Failure("create", 0, blog.title,
                                        create_blog_except(SQLAlchemyError))
                ELSE /\ store' = rows
                     /\ resp' = Success("create", new_blog.id, blog.title,
                                        HTTP_201_CREATED,
                                        BlogResponseSchema(new_blog))

(***************************************************************************)
(* GET /api/v1/blogs?page=&page_size=                                      *)
(***************************************************************************)
\* .order_by(Blog.created_at.desc()): the sequences of ids in an order the
\* database may return; it fixes no order among equal created_at.
order_by_created_at_desc(rows, ids) ==
    { s \in [1..Cardinality(ids) -> ids] :
        /\ \A k, l \in DOMAIN s : s[k] = s[l] => k = l
        /\ \A k, l \in DOMAIN s :
              k < l => rows[s[k]].created_at >= rows[s[l]].created_at }

\* .offset(offset).limit(limit).all()
offset_limit(s, offset, limit) ==
    [k \in 1..(IF Len(s) - offset < 0 THEN 0
               ELSE IF Len(s) - offset < limit THEN Len(s) - offset
               ELSE limit) |-> s[offset + k]]

\* The link without its page_size parameter.
PageUrl_page_only(page, page_size) ==
    "/api/v1/blogs?page=" \o ToString(page)

\* f"/api/v1/blogs?page={page}&page_size={page_size}"
PageUrl(page, page_size) ==
    "/api/v1/blogs?page=" \o ToString(page)
        \o "&page_size=" \o ToString(page_size)

BlogListItemResponseSchema(blog) ==
    [id |-> blog.id, title |-> blog.title, excerpt |-> blog.excerpt,
     image_url |-> blog.image_url, created_at |-> blog.created_at]

list_blog(page, page_size) ==
    \E query \in order_by_created_at_desc(store, query_active(store)) :
        LET offset == (page - 1) * page_size
            total_count == Len(query)
            blogs == offset_limit(query, offset, page_size)
            next_page == IF offset + page_size < total_count
                         THEN PageUrl(page + 1, page_size) ELSE NoUrl
            prev_page == IF page > 1
                         THEN PageUrl(page - 1, page_size) ELSE NoUrl
            results == [k \in DOMAIN blogs |->
                           BlogListItemResponseSchema(store[blogs[k]])]
        IN  /\ store' = store
            /\ resp' = [op |-> "list", id |-> 0, title |-> None,
                        status |-> HTTP_200_OK, detail |-> NoDetail,
                        body |-> NoBody, count |-> total_count,
                        next |-> next_page, previous |-> prev_page,
                        results |-> results]

(***************************************************************************)
(* GET /api/v1/blogs/{id}                                                  *)
(***************************************************************************)
read_blog(id) ==
    LET blog == query_active_id(store, id)
    IN  /\ store' = store
        /\ IF blog = {}
           THEN resp' = Failure("read", id, None,
                    read_blog_except(
                        HTTPException(HTTP_404_NOT_FOUND, NotFoundDetail)))
           ELSE resp' = Success("read", id, None, HTTP_200_OK,
                                model_validate(store[id]))

(***************************************************************************)
(* PATCH /api/v1/blogs/{id}                                                *)
(***************************************************************************)
\* The setattr loop passing over the excerpt.
setattr_all_but_excerpt(blog, blog_update, update_data) ==
    [blog EXCEPT
        !.title = IF "title" \in update_data THEN blog_update.title ELSE @,
        !.content = IF "content" \in update_data THEN blog_update.content ELSE @,
        !.image_url = IF "image_url" \in update_data
                      THEN blog_update.image_url ELSE @,
        !.is_deleted = IF "is_deleted" \in update_data
                       THEN blog_update.is_deleted ELSE @]

\* for field, value in update_data.items(): setattr(blog, field, value)
setattr_all(blog, blog_update, update_data) ==
    [blog EXCEPT
        !.title = IF "title" \in update_data THEN blog_update.title ELSE @,
        !.excerpt = IF "excerpt" \in update_data THEN blog_update.excerpt ELSE @,
        !.content = IF "content" \in update_data THEN blog_update.content ELSE @,
        !.image_url = IF "image_url" \in update_data
                      THEN blog_update.image_url ELSE @,
        !.is_deleted = IF "is_deleted" \in update_data
                       THEN blog_update.is_deleted ELSE @]

\* An UPDATE statement that stamps created_at as well.
onupdate_stamps_created_at(old, new, now) ==
    IF new # old THEN [new EXCEPT !.created_at = now, !.updated_at = now] ELSE new

\* updated_at has onupdate=func.now(): the UPDATE statement a flush emits
\* for a row with a changed column sets it; an unchanged row gets no UPDATE.
onupdate(old, new, now) ==
    IF new # old THEN [new EXCEPT !.updated_at = now] ELSE new

update_blog(id, blog_update, now) ==
    LET blog == query_active_id(store, id)
        update_data == model_dump(blog_update)
    IN  IF blog = {}
        THEN /\ store' = store
             /\ resp' = Failure("update", id, blog_update.title,
                    update_blog_except(
                        HTTPException(HTTP_404_NOT_FOUND, NotFoundDetail)))
        ELSE IF /\ "title" \in update_data
                /\ blog_update.title # store[id].title
                /\ query_active_title(store, blog_update.title) # {}
        THEN /\ store' = store
             /\ resp' = Failure("update", id, blog_update.title,
                    update_blog_except(
                        HTTPException(HTTP_409_CONFLICT, DuplicateTitleDetail)))
        ELSE LET new == onupdate(store[id],
                            setattr_all(store[id], blog_update, update_data), now)
                 rows == [store EXCEPT ![id] = new]
             IN  IF IntegrityError(rows)
                 THEN /\ store' = store
                      /\ resp' = Failure("update", id, blog_update.title,
                                         update_blog_except(SQLAlchemyError))
                 ELSE /\ store' = rows
                      /\ resp' = Success("update", id, blog_update.title,
                                         HTTP_200_OK, BlogResponseSchema(new))

(***************************************************************************)
(* DELETE /api/v1/blogs/{id}                                               *)
(***************************************************************************)
\* A delete that removes the row (db.delete(blog_to_delete)) instead of
\* setting its flag.
delete_blog_hard(id, now) ==
    LET blog_to_delete == query_active_id(store, id)
    IN  IF blog_to_delete = {}
        THEN /\ store' = store
             /\ resp' = Failure("delete", id, None,
                    delete_blog_except(
                        HTTPException(HTTP_404_NOT_FOUND, DeleteNotFoundDetail)))
        ELSE /\ store' = SelectSeq(store, LAMBDA blog : blog.id # id)
             /\ resp' = Success("delete", id, None, HTTP_204_NO_CONTENT, NoBody)

delete_blog(id, now) ==
    LET blog_to_delete == query_active_id(store, id)
    IN  IF blog_to_delete = {}
        THEN /\ store' = store
             /\ resp' = Failure("delete", id, None,
                    delete_blog_except(
                        HTTPException(HTTP_404_NOT_FOUND, DeleteNotFoundDetail)))
        ELSE LET new == onupdate(store[id],
                                 [store[id] EXCEPT !.is_deleted = TRUE], now)
                 rows == [store EXCEPT ![id] = new]
             IN  IF IntegrityError(rows)
                 THEN /\ store' = store
                      /\ resp' = Failure("delete", id, None,
                                         delete_blog_except(SQLAlchemyError))
                 ELSE /\ store' = rows
                      /\ resp' = Success("delete", id, None,
                                         HTTP_204_NO_CONTENT, NoBody)

(***************************************************************************)
(* The service: an empty table, then any sequence of requests.             *)
(***************************************************************************)
\* A logged request: the operation, the id of its path, its JSON body, its
\* page and page_size query parameters (each a one-element sequence, empty
\* when the request has none), and the call of the handler that raises when
\* the handler reaches it.
Request(op, id, body, page, page_size, fault) ==
    [op |-> op, id |-> id, body |-> body, page |-> page,
     page_size |-> page_size, fault |-> fault]

NoFault == "none"
NoRequest == Request("none", 0, <<>>, <<>>, <<>>, NoFault)

\* What a client has collected that read pages 1..pages of the list with one
\* page_size while the table did not change: the results, page after page.
Walk(page_size, pages, results) ==
    [page_size |-> page_size, pages |-> pages, results |-> results]

NoWalk == Walk(0, 0, <<>>)

\* A worker thread of the pool that runs no request.
Idle == [pc |-> "idle", id |-> 0, blog_update |-> <<>>, blog |-> <<>>]

\* The worker thread whose PATCH request is followed statement by statement.
Workers == {"worker-1"}

\* The server processes on one database whose POST and DELETE requests are
\* followed statement by statement.
Processes == {"process-1", "process-2"}

\* A server process between two requests.
Ready == [pc |-> "idle", op |-> "none", id |-> 0, blog |-> <<>>]

\* The session db_session() returns to get_db: the rows db.add() has put in
\* it that no commit has written and no rollback or close has discarded
\* (pending), whether a flush of it has failed with no rollback since
\* (failed), and where the get_db generator of the request stands (pc).
Session(pc, pending, failed) ==
    [pc |-> pc, pending |-> pending, failed |-> failed]

Init ==
    /\ store = <<>>
    /\ resp = Success("none", 0, None, 0, NoBody)
    /\ inflight = [w \in Workers |-> Idle]
                    @@ [p \in Processes |-> Ready]
    /\ req = NoRequest
    /\ walk = NoWalk
    /\ session = Session("idle", <<>>, FALSE)

Create ==
    /\ \E blog \in BlogCreate, now \in Now(store) : create_blog(blog, now)
    /\ UNCHANGED <<inflight, req, walk, session>>

List ==
    /\ \E page \in 1..MaxPage, page_size \in 1..MaxPageSize :
            list_blog(page, page_size)
    /\ UNCHANGED <<inflight, req, walk, session>>

Read ==
    /\ \E id \in Ids(store) : read_blog(id)
    /\ UNCHANGED <<inflight, req, walk, session>>

Update ==
    /\ \E id \in Ids(store), blog_update \in BlogUpdate, now \in Now(store) :
            update_blog(id, blog_update, now)
    /\ UNCHANGED <<inflight, req, walk, session>>

Delete ==
    /\ \E id \in Ids(store), now \in Now(store) : delete_blog(id, now)
    /\ UNCHANGED <<inflight, req, walk, session>>

Next == Create \/ List \/ Read \/ Update \/ Delete

Spec == Init /\ [][Next]_vars

(***************************************************************************)
(* PATCH /api/v1/blogs/{id} in a worker thread, statement by statement.    *)
(* The worker's session loads the row (update_lookup), runs the title      *)
(* query and sets the attributes on the loaded object (update_check), and  *)
(* commits (update_commit): the flush emits UPDATE blogs SET <the columns  *)
(* whose value differs from the loaded one>, updated_at=now() WHERE id =   *)
(* <id>, on the table as it is then.                                       *)
(***************************************************************************)
update_lookup(w, id, blog_update) ==
    LET blog == query_active_id(store, id)
    IN  /\ inflight[w].pc = "idle"
        /\ store' = store
        /\ IF blog = {}
           THEN /\ resp' = Failure("update", id, blog_update.title,
                      update_blog_except(
                          HTTPException(HTTP_404_NOT_FOUND, NotFoundDetail)))
                /\ inflight' = inflight
           ELSE /\ resp' = resp
                /\ inflight' = [inflight EXCEPT ![w] =
                      [pc |-> "check", id |-> id,
                       blog_update |-> <<blog_update>>, blog |-> <<store[id]>>]]

update_check(w) ==
    LET id == inflight[w].id
        blog_update == inflight[w].blog_update[1]
        blog == inflight[w].blog[1]
        update_data == model_dump(blog_update)
    IN  /\ inflight[w].pc = "check"
        /\ store' = store
        /\ IF /\ "title" \in update_data
              /\ blog_update.title # blog.title
              /\ query_active_title(store, blog_update.title) # {}
           THEN /\ resp' = Failure("update", id, blog_update.title,
                      update_blog_except(
                          HTTPException(HTTP_409_CONFLICT, DuplicateTitleDetail)))
                /\ inflight' = [inflight EXCEPT ![w] = Idle]
           ELSE /\ resp' = resp
                /\ inflight' = [inflight EXCEPT ![w].pc = "commit"]

\* The row an UPDATE of the columns that differ between the loaded object
\* `blog` and `new` leaves in place of `current`.
flush(current, blog, new) ==
    [f \in DOMAIN current |-> IF new[f] # blog[f] THEN new[f] ELSE current[f]]

update_commit(w, now) ==
    LET id == inflight[w].id
        blog_update == inflight[w].blog_update[1]
        blog == inflight[w].blog[1]
        new == onupdate(blog,
                        setattr_all(blog, blog_update, model_dump(blog_update)),
                        now)
        rows == [store EXCEPT ![id] = flush(store[id], blog, new)]
    IN  /\ inflight[w].pc = "commit"
        /\ inflight' = [inflight EXCEPT ![w] = Idle]
        /\ IF IntegrityError(rows)
           THEN /\ store' = store
                /\ resp' = Failure("update", id, blog_update.title,
                                   update_blog_except(SQLAlchemyError))
           ELSE /\ store' = rows
                /\ resp' = Success("update", id, blog_update.title,
                                   HTTP_200_OK, BlogResponseSchema(rows[id]))

\* The requests of the interleaved runs: a PATCH supplies a title, an
\* excerpt, both or neither; a POST differs from another in its title; all
\* of them fall within one tick of the clock.
RacingUpdates ==
    {b \in BlogUpdate : /\ b.fields_set \subseteq {"title", "excerpt"}
                        /\ b.excerpt \in {None, "excerpt-b"}}

RacingCreates ==
    {b \in BlogCreate : b.excerpt = "excerpt-a" /\ b.is_deleted = FALSE}

RacingNow(rows) == {LastStamp(rows)}

CreateRacing ==
    /\ \E blog \in RacingCreates, now \in RacingNow(store) :
            create_blog(blog, now)
    /\ UNCHANGED <<inflight, req, walk, session>>

\* A PATCH another worker runs from its lookup to its commit in between.
UpdateRacing ==
    /\ \E id \in Ids(store), blog_update \in RacingUpdates,
          now \in RacingNow(store) :
            update_blog(id, blog_update, now)
    /\ UNCHANGED <<inflight, req, walk, session>>

DeleteRacing ==
    /\ \E id \in Ids(store), now \in RacingNow(store) : delete_blog(id, now)
    /\ UNCHANGED <<inflight, req, walk, session>>

UpdateLookup ==
    /\ \E w \in Workers, id \in Ids(store), blog_update \in RacingUpdates :
            update_lookup(w, id, blog_update)
    /\ UNCHANGED <<req, walk, session>>

UpdateCheck ==
    /\ \E w \in Workers : update_check(w)
    /\ UNCHANGED <<req, walk, session>>

UpdateCommit ==
    /\ \E w \in Workers, now \in RacingNow(store) : update_commit(w, now)
    /\ UNCHANGED <<req, walk, session>>

NextConc ==
    \/ CreateRacing \/ UpdateRacing \/ DeleteRacing
    \/ UpdateLookup \/ UpdateCheck \/ UpdateCommit

SpecConc == Init /\ [][NextConc]_vars

(***************************************************************************)
(* The service with a request log: POST, PATCH and DELETE requests, one at *)
(* a time, each one recorded in `req` as the client sent it.  A PATCH has   *)
(* any body of BlogUpdate; as in the interleaved runs the POST bodies      *)
(* differ in their title and all requests fall within one tick of the      *)
(* clock.                                                                  *)
(***************************************************************************)
CreateLogged ==
    /\ \E blog \in RacingCreates, now \in RacingNow(store) :
            /\ create_blog(blog, now)
            /\ req' = Request("create", 0, <<blog>>, <<>>, <<>>, NoFault)
    /\ UNCHANGED <<inflight, walk, session>>

UpdateLogged ==
    /\ \E id \in Ids(store), blog_update \in BlogUpdate,
          now \in RacingNow(store) :
            /\ update_blog(id, blog_update, now)
            /\ req' = Request("update", id, <<blog_update>>, <<>>, <<>>, NoFault)
    /\ UNCHANGED <<inflight, walk, session>>

DeleteLogged ==
    /\ \E id \in Ids(store), now \in RacingNow(store) :
            /\ delete_blog(id, now)
            /\ req' = Request("delete", id, <<>>, <<>>, <<>>, NoFault)
    /\ UNCHANGED <<inflight, walk, session>>

NextPatch == CreateLogged \/ UpdateLogged \/ DeleteLogged

SpecPatch == Init /\ [][NextPatch]_vars

(***************************************************************************)
(* The list with a request log.  A client posts the posts "title-1",       *)
(* "title-2", ..., deletes some, and reads pages; the clock may or may not *)
(* tick before a POST.  A client that reads page 1, then page 2,           *)
(* ... with one page_size collects the results in `walk`; a POST or a      *)
(* DELETE, which change the table, or a page out of turn end the walk.     *)
(***************************************************************************)
PagedCreates(rows) ==
    {[title |-> "title-" \o ToString(Len(rows) + 1), excerpt |-> "excerpt-a",
      content |-> "content-a", image_url |-> "image-a", is_deleted |-> FALSE]}

CreatePaged ==
    /\ \E blog \in PagedCreates(store), now \in Now(store) :
            /\ create_blog(blog, now)
            /\ req' = Request("create", 0, <<blog>>, <<>>, <<>>, NoFault)
    /\ walk' = NoWalk
    /\ UNCHANGED <<inflight, session>>

DeletePaged ==
    /\ \E id \in DOMAIN store, now \in RacingNow(store) :
            /\ delete_blog(id, now)
            /\ req' = Request("delete", id, <<>>, <<>>, <<>>, NoFault)
    /\ walk' = NoWalk
    /\ UNCHANGED <<inflight, session>>

ListPaged ==
    /\ \E page \in 1..MaxPage, page_size \in 1..MaxPageSize :
            /\ list_blog(page, page_size)
            /\ req' = Request("list", 0, <<>>, <<page>>, <<page_size>>, NoFault)
            /\ walk' = IF page = 1
                       THEN Walk(page_size, 1, resp'.results)
                       ELSE IF page_size = walk.page_size /\ page = walk.pages + 1
                       THEN Walk(page_size, page, walk.results \o resp'.results)
                       ELSE NoWalk
    /\ UNCHANGED <<inflight, session>>

NextPage == CreatePaged \/ DeletePaged \/ ListPaged

SpecPage == Init /\ [][NextPage]_vars

(***************************************************************************)
(* Requests during which a call of the handler raises.  `fault` names the  *)
(* call: "query" is the handler's first query, "commit" its db.commit(),   *)
(* "refresh" the db.refresh() after a commit that succeeded, each raising  *)
(* a SQLAlchemyError; "raise" is an exception of another class raised at   *)
(* the handler's first statement.  A request is enabled with a fault only  *)
(* when the handler reaches the call.  A commit that raises has written    *)
(* nothing; the handler's db.rollback(), or for create_blog the db.close() *)
(* of get_db, discards the session's pending changes.                      *)
(***************************************************************************)
ReadFaults == {"query", "raise"}
DeleteFaults == {"query", "commit", "raise"}
WriteFaults == {"query", "commit", "refresh", "raise"}

raised(fault) == IF fault = "raise" THEN Exception ELSE SQLAlchemyError

\* A rollback that leaves the pending changes in the table.
rollback_keeps_pending(current, pending) ==
    pending

\* The table after db.rollback() or db.close() of a session with pending changes.
rollback(current, pending) ==
    current

create_blog_fault(blog, now, fault) ==
    LET existing_blog == query_title(store, blog.title)
        pending == Append(store, Blog(Len(store) + 1, blog.title, blog.excerpt,
                                      blog.content, blog.image_url, now))
    IN  /\ fault \in {"commit", "refresh"} => existing_blog = {}
        /\ fault = "refresh" => (Len(store) < MaxRows /\ ~IntegrityError(pending))
        /\ store' = IF fault = "refresh" THEN pending
                    ELSE rollback(store, IF fault = "commit" THEN pending ELSE store)
        /\ resp' = Failure("create", 0, blog.title,
                           create_blog_except(raised(fault)))

list_blog_fault(page, page_size, fault) ==
    /\ store' = store
    /\ resp' = Failure("list", 0, None, list_blog_except(raised(fault)))

read_blog_fault(id, fault) ==
    /\ store' = store
    /\ resp' = Failure("read", id, None, read_blog_except(raised(fault)))

update_blog_fault(id, blog_update, now, fault) ==
    LET blog == query_active_id(store, id)
        update_data == model_dump(blog_update)
        new == onupdate(store[id],
                        setattr_all(store[id], blog_update, update_data), now)
        pending == [store EXCEPT ![id] = new]
    IN  /\ fault \in {"commit", "refresh"}
            => /\ blog # {}
               /\ ~(/\ "title" \in update_data
                    /\ blog_update.title # store[id].title
                    /\ query_active_title(store, blog_update.title) # {})
        /\ fault = "refresh" => ~IntegrityError(pending)
        /\ store' = IF fault = "refresh" THEN pending
                    ELSE rollback(store, IF fault = "commit" THEN pending ELSE store)
        /\ resp' = Failure("update", id, blog_update.title,
                           update_blog_except(raised(fault)))

delete_blog_fault(id, now, fault) ==
    LET blog_to_delete == query_active_id(store, id)
        new == onupdate(store[id], [store[id] EXCEPT !.is_deleted = TRUE], now)
        pending == [store EXCEPT ![id] = new]
    IN  /\ fault = "commit" => blog_to_delete # {}
        /\ store' = rollback(store, IF fault = "commit" THEN pending ELSE store)
        /\ resp' = Failure("delete", id, None, delete_blog_except(raised(fault)))

CreateFault ==
    /\ \E blog \in RacingCreates, now \in RacingNow(store), fault \in WriteFaults :
            /\ create_blog_fault(blog, now, fault)
            /\ req' = Request("create", 0, <<blog>>, <<>>, <<>>, fault)
    /\ UNCHANGED <<inflight, walk, session>>

ListFault ==
    /\ \E page \in 1..MaxPage, page_size \in 1..MaxPageSize, fault \in ReadFaults :
            /\ list_blog_fault(page, page_size, fault)
            /\ req' = Request("list", 0, <<>>, <<page>>, <<page_size>>, fault)
    /\ UNCHANGED <<inflight, walk, session>>

ReadFault ==
    /\ \E id \in Ids(store), fault \in ReadFaults :
            /\ read_blog_fault(id, fault)
            /\ req' = Request("read", id, <<>>, <<>>, <<>>, fault)
    /\ UNCHANGED <<inflight, walk, session>>

UpdateFault ==
    /\ \E id \in Ids(store), blog_update \in RacingUpdates,
          now \in RacingNow(store), fault \in WriteFaults :
            /\ update_blog_fault(id, blog_update, now, fault)
            /\ req' = Request("update", id, <<blog_update>>, <<>>, <<>>, fault)
    /\ UNCHANGED <<inflight, walk, session>>

DeleteFault ==
    /\ \E id \in Ids(store), now \in RacingNow(store), fault \in DeleteFaults :
            /\ delete_blog_fault(id, now, fault)
            /\ req' = Request("delete", id, <<>>, <<>>, <<>>, fault)
    /\ UNCHANGED <<inflight, walk, session>>

\* The requests without a fault that fill the table.
UpdateRacingLogged ==
    /\ \E id \in Ids(store), blog_update \in RacingUpdates,
          now \in RacingNow(store) :
            /\ update_blog(id, blog_update, now)
            /\ req' = Request("update", id, <<blog_update>>, <<>>, <<>>, NoFault)
    /\ UNCHANGED <<inflight, walk, session>>

NextFault ==
    \/ CreateLogged \/ UpdateRacingLogged \/ DeleteLogged
    \/ CreateFault \/ ListFault \/ ReadFault \/ UpdateFault \/ DeleteFault

SpecFault == Init /\ [][NextFault]_vars

(***************************************************************************)
(* Request validation.  FastAPI validates the JSON body against the        *)
(* schema of the route and the query parameters against their Query(...)   *)
(* declarations before it calls the handler; a request that fails gets 422 *)
(* and the handler does not run.  Here a text is the string itself, its    *)
(* length is Len of it; None in a body is a field the JSON does not have.  *)
(***************************************************************************)
TitleMinLength == 10
TitleMaxLength == 255
ExcerptMinLength == 20
ExcerptMaxLength == 300
ImageUrlMaxLength == 255
PageDefault == 1
PageMin == 1
PageSizeDefault == 10
PageSizeMin == 1
PageSizeMax == 100

\* c * n
RECURSIVE Repeat(_, _)
Repeat(c, n) ==
    IF n = 0 THEN ""
    ELSE IF n % 2 = 1 THEN c \o Repeat(c, n - 1)
    ELSE LET half == Repeat(c, n \div 2) IN half \o half

\* Texts at both sides of each length bound.
RawTitles ==
    {Repeat("T", n) : n \in {TitleMinLength - 1, TitleMinLength,
                             TitleMaxLength, TitleMaxLength + 1}}

RawExcerpts ==
    {Repeat("E", n) : n \in {ExcerptMinLength - 1, ExcerptMinLength,
                             ExcerptMaxLength, ExcerptMaxLength + 1}}

RawImageUrls ==
    {Repeat("I", n) : n \in {ImageUrlMaxLength, ImageUrlMaxLength + 1}}

RawBlogCreate ==
    [title : RawTitles \cup {None}, excerpt : RawExcerpts \cup {None},
     content : Contents \cup {None}, image_url : RawImageUrls \cup {None},
     is_deleted : {FALSE}]

\* The PATCH bodies supply any of the three fields with a length bound.
RawBlogUpdate ==
    { b \in [title : RawTitles \cup {None}, excerpt : RawExcerpts \cup {None},
             content : {None}, image_url : RawImageUrls \cup {None},
             is_deleted : {FALSE},
             fields_set : SUBSET {"title", "excerpt", "image_url"}] :
        /\ ("title" \in b.fields_set) <=> (b.title # None)
        /\ ("excerpt" \in b.fields_set) <=> (b.excerpt # None)
        /\ ("image_url" \in b.fields_set) <=> (b.image_url # None) }

\* Query parameters: omitted, or an integer at both sides of each bound.
RawPages ==
    {<<>>} \cup {<<n>> : n \in {PageMin - 2, PageMin - 1, PageMin, PageMin + 1}}

RawPageSizes ==
    {<<>>} \cup {<<n>> : n \in {PageSizeMin - 2, PageSizeMin - 1, PageSizeMin,
                                PageSizeMin + 1, PageSizeMax, PageSizeMax + 1}}

\* A length check that excludes the maximum itself.
Field_exclusive_max(value, min_length, max_length) ==
    min_length <= Len(value) /\ Len(value) < max_length

\* Field(..., min_length=min_length, max_length=max_length) of a str
Field(value, min_length, max_length) ==
    min_length <= Len(value) /\ Len(value) <= max_length

\* BlogBase, BlogCreate: four required texts.
BlogCreate_validate(body) ==
    /\ body.title # None
    /\ Field(body.title, TitleMinLength, TitleMaxLength)
    /\ body.excerpt # None
    /\ Field(body.excerpt, ExcerptMinLength, ExcerptMaxLength)
    /\ body.content # None
    /\ body.image_url # None
    /\ Field(body.image_url, 0, ImageUrlMaxLength)

\* BlogUpdate: every field optional.
BlogUpdate_validate(body) ==
    /\ body.title # None => Field(body.title, TitleMinLength, TitleMaxLength)
    /\ body.excerpt # None
          => Field(body.excerpt, ExcerptMinLength, ExcerptMaxLength)
    /\ body.image_url # None => Field(body.image_url, 0, ImageUrlMaxLength)

\* page_size declared without its upper bound.
page_size_validate_no_le(page_size) ==
    page_size = <<>> \/ page_size[1] >= PageSizeMin

\* page: int = Query(1, ge=1)
page_validate(page) ==
    page = <<>> \/ page[1] >= PageMin

\* page_size: int = Query(10, ge=1, le=100)
page_size_validate(page_size) ==
    page_size = <<>> \/ (page_size[1] >= PageSizeMin /\ page_size[1] <= PageSizeMax)

\* The value the handler receives for a query parameter.
Query(value, default) == IF value = <<>> THEN default ELSE value[1]

\* The 422 response of FastAPI's RequestValidationError handler.
RequestValidationError ==
    HTTPException(HTTP_422_UNPROCESSABLE_ENTITY, ValidationErrorDetail)

\* The handler's first query does or does not raise.
QueryFaults == {NoFault, "query"}

CreateValidated ==
    /\ \E body \in RawBlogCreate, now \in RacingNow(store), fault \in QueryFaults :
            /\ IF ~BlogCreate_validate(body)
               THEN /\ store' = store
                    /\ resp' = Failure("create", 0, body.title,
                                       RequestValidationError)
               ELSE IF fault = NoFault
               THEN create_blog(body, now)
               ELSE create_blog_fault(body, now, fault)
            /\ req' = Request("create", 0, <<body>>, <<>>, <<>>, fault)
    /\ UNCHANGED <<inflight, walk, session>>

ListValidated ==
    /\ \E page \in RawPages, page_size \in RawPageSizes, fault \in QueryFaults :
            /\ IF ~(page_validate(page) /\ page_size_validate(page_size))
               THEN /\ store' = store
                    /\ resp' = Failure("list", 0, None, RequestValidationError)
               ELSE IF fault = NoFault
               THEN list_blog(Query(page, PageDefault),
                              Query(page_size, PageSizeDefault))
               ELSE list_blog_fault(Query(page, PageDefault),
                                    Query(page_size, PageSizeDefault), fault)
            /\ req' = Request("list", 0, <<>>, page, page_size, fault)
    /\ UNCHANGED <<inflight, walk, session>>

UpdateValidated ==
    /\ \E id \in DOMAIN store, body \in RawBlogUpdate, now \in RacingNow(store),
          fault \in QueryFaults :
            /\ IF ~BlogUpdate_validate(body)
               THEN /\ store' = store
                    /\ resp' = Failure("update", id, body.title,
                                       RequestValidationError)
               ELSE IF fault = NoFault
               THEN update_blog(id, body, now)
               ELSE update_blog_fault(id, body, now, fault)
            /\ req' = Request("update", id, <<body>>, <<>>, <<>>, fault)
    /\ UNCHANGED <<inflight, walk, session>>

NextValid == CreateValidated \/ ListValidated \/ UpdateValidated

SpecValid == Init /\ [][NextValid]_vars

(***************************************************************************)
(* The service with a request log that also records the time of the        *)
(* database's clock, now(), during the request; the clock may tick between *)
(* two requests.                                                           *)
(***************************************************************************)
RequestAt(request, now) ==
    [op |-> request.op, id |-> request.id, body |-> request.body,
     page |-> request.page, page_size |-> request.page_size,
     fault |-> request.fault, at |-> now]

CreateTimed ==
    /\ \E blog \in BlogCreate, now \in Now(store) :
            /\ create_blog(blog, now)
            /\ req' = RequestAt(
                   Request("create", 0, <<blog>>, <<>>, <<>>, NoFault), now)
    /\ UNCHANGED <<inflight, walk, session>>

UpdateTimed ==
    /\ \E id \in Ids(store), blog_update \in RacingUpdates, now \in Now(store) :
            /\ update_blog(id, blog_update, now)
            /\ req' = RequestAt(
                   Request("update", id, <<blog_update>>, <<>>, <<>>, NoFault),
                   now)
    /\ UNCHANGED <<inflight, walk, session>>

DeleteTimed ==
    /\ \E id \in Ids(store), now \in Now(store) :
            /\ delete_blog(id, now)
            /\ req' = RequestAt(
                   Request("delete", id, <<>>, <<>>, <<>>, NoFault), now)
    /\ UNCHANGED <<inflight, walk, session>>

NextClock == CreateTimed \/ UpdateTimed \/ DeleteTimed

SpecClock == Init /\ [][NextClock]_vars

(***************************************************************************)
(* Server processes on one database.  The handlers of POST and DELETE are  *)
(* coroutines without an await: one process runs each of them from its     *)
(* first statement to its last, and two processes interleave them          *)
(* statement by statement.  A POST runs its title query (create_query) and *)
(* then adds and commits the row (create_commit); a DELETE loads the row   *)
(* (delete_lookup) and then sets the flag and commits (delete_commit).     *)
(* The PATCH of the worker thread runs among them.                         *)
(***************************************************************************)
\* A title query that also sees the titles other requests are about to
\* commit, as it would under a lock held from the query to the commit.
create_query_locked(p, blog) ==
    LET pending == {inflight[q].blog[1].title :
                        q \in {q \in Processes : /\ inflight[q].pc = "commit"
                                                 /\ inflight[q].op = "create"}}
                   \cup {inflight[w].blog_update[1].title :
                            w \in {w \in Workers : inflight[w].pc = "commit"}}
    IN  /\ inflight[p].pc = "idle"
        /\ store' = store
        /\ IF query_title(store, blog.title) # {} \/ blog.title \in pending
           THEN /\ resp' = Failure("create", 0, blog.title,
                      create_blog_except(
                          HTTPException(HTTP_409_CONFLICT, DuplicateTitleDetail)))
                /\ inflight' = [inflight EXCEPT ![p] = Ready]
           ELSE /\ resp' = resp
                /\ inflight' = [inflight EXCEPT ![p] =
                      [pc |-> "commit", op |-> "create", id |-> 0,
                       blog |-> <<blog>>]]

create_query(p, blog) ==
    /\ inflight[p].pc = "idle"
    /\ store' = store
    /\ IF query_title(store, blog.title) # {}
       THEN /\ resp' = Failure("create", 0, blog.title,
                  create_blog_except(
                      HTTPException(HTTP_409_CONFLICT, DuplicateTitleDetail)))
            /\ inflight' = [inflight EXCEPT ![p] = Ready]
       ELSE /\ resp' = resp
            /\ inflight' = [inflight EXCEPT ![p] =
                  [pc |-> "commit", op |-> "create", id |-> 0,
                   blog |-> <<blog>>]]

\* A commit that reports no failure of the INSERT to the handler.
create_commit_unchecked(p, now) ==
    LET blog == inflight[p].blog[1]
        new_blog == Blog(Len(store) + 1, blog.title, blog.excerpt,
                         blog.content, blog.image_url, now)
        rows == Append(store, new_blog)
    IN  /\ inflight[p].pc = "commit"
        /\ inflight[p].op = "create"
        /\ Len(store) < MaxRows
        /\ store' = rows
        /\ resp' = Success("create", new_blog.id, blog.title,
                           HTTP_201_CREATED, BlogResponseSchema(new_blog))
        /\ inflight' = [inflight EXCEPT ![p] = Ready]

create_commit(p, now) ==
    LET blog == inflight[p].blog[1]
        new_blog == Blog(Len(store) + 1, blog.title, blog.excerpt,
                         blog.content, blog.image_url, now)
        rows == Append(store, new_blog)
    IN  /\ inflight[p].pc = "commit"
        /\ inflight[p].op = "create"
        /\ Len(store) < MaxRows
        /\ IF IntegrityError(rows)
           THEN /\ store' = store
                /\ resp' = Failure("create", 0, blog.title,
                                   create_blog_except(SQLAlchemyError))
                /\ inflight' = [inflight EXCEPT ![p] = Ready]
           ELSE /\ store' = rows
                /\ resp' = Success("create", new_blog.id, blog.title,
                                   HTTP_201_CREATED, BlogResponseSchema(new_blog))
                /\ inflight' = [inflight EXCEPT ![p] = Ready]

delete_lookup(p, id) ==
    LET blog_to_delete == query_active_id(store, id)
    IN  /\ inflight[p].pc = "idle"
        /\ store' = store
        /\ IF blog_to_delete = {}
           THEN /\ resp' = Failure("delete", id, None,
                      delete_blog_except(
                          HTTPException(HTTP_404_NOT_FOUND, DeleteNotFoundDetail)))
                /\ inflight' = [inflight EXCEPT ![p] = Ready]
           ELSE /\ resp' = resp
                /\ inflight' = [inflight EXCEPT ![p] =
                      [pc |-> "commit", op |-> "delete", id |-> id,
                       blog |-> <<store[id]>>]]

delete_commit(p, now) ==
    LET id == inflight[p].id
        blog_to_delete == inflight[p].blog[1]
        new == onupdate(blog_to_delete,
                        [blog_to_delete EXCEPT !.is_deleted = TRUE], now)
        rows == [store EXCEPT ![id] = flush(store[id], blog_to_delete, new)]
    IN  /\ inflight[p].pc = "commit"
        /\ inflight[p].op = "delete"
        /\ IF IntegrityError(rows)
           THEN /\ store' = store
                /\ resp' = Failure("delete", id, None,
                                   delete_blog_except(SQLAlchemyError))
                /\ inflight' = [inflight EXCEPT ![p] = Ready]
           ELSE /\ store' = rows
                /\ resp' = Success("delete", id, None,
                                   HTTP_204_NO_CONTENT, NoBody)
                /\ inflight' = [inflight EXCEPT ![p] = Ready]

CreateQuery ==
    /\ \E p \in Processes, blog \in RacingCreates : create_query(p, blog)
    /\ UNCHANGED <<req, walk, session>>

CreateCommit ==
    /\ \E p \in Processes, now \in RacingNow(store) : create_commit(p, now)
    /\ UNCHANGED <<req, walk, session>>

DeleteLookup ==
    /\ \E p \in Processes, id \in Ids(store) : delete_lookup(p, id)
    /\ UNCHANGED <<req, walk, session>>

DeleteCommit ==
    /\ \E p \in Processes, now \in RacingNow(store) : delete_commit(p, now)
    /\ UNCHANGED <<req, walk, session>>

\* The PATCH requests of these runs rename a post.
RenamingUpdates == {b \in RacingUpdates : b.fields_set = {"title"}}

UpdateLookupRenaming ==
    /\ \E w \in Workers, id \in Ids(store), blog_update \in RenamingUpdates :
            update_lookup(w, id, blog_update)
    /\ UNCHANGED <<req, walk, session>>

NextRace ==
    \/ CreateQuery \/ CreateCommit \/ DeleteLookup \/ DeleteCommit
    \/ UpdateLookupRenaming \/ UpdateCheck \/ UpdateCommit

SpecRace == Init /\ [][NextRace]_vars

(***************************************************************************)
(* Requests on the session of get_db, one at a time.  get_db takes the     *)
(* thread's session from the scoped_session registry (GetDb), the handler  *)
(* runs on it (CreateInSession, UpdateInSession) and the finally clause    *)
(* closes it (Finally).  The registry keeps the session object: the next   *)
(* request of the thread gets the same one, with whatever it still holds.  *)
(* A query on a session whose flush has failed raises PendingRollbackError *)
(* (a SQLAlchemyError) until a rollback or a close; a commit flushes every *)
(* pending row of the session, whichever request has added it.             *)
(***************************************************************************)
\* The table after the INSERTs of the session's pending rows.
RECURSIVE flush_new(_, _, _)
flush_new(rows, pending, now) ==
    IF pending = <<>> THEN rows
    ELSE LET blog == Head(pending)
         IN  flush_new(Append(rows, Blog(Len(rows) + 1, blog.title, blog.excerpt,
                                         blog.content, blog.image_url, now)),
                       Tail(pending), now)

\* A get_db whose generator ends without db.close().
close_skipped(db) ==
    Session("idle", db.pending, db.failed)

\* finally: db.close()
close(db) ==
    Session("idle", <<>>, FALSE)

get_db ==
    /\ session.pc = "idle"
    /\ session' = Session("yielded", session.pending, session.failed)

create_blog_session(blog, now, fault) ==
    LET existing_blog == query_title(store, blog.title)
        pending == Append(session.pending, blog)
        rows == flush_new(store, pending, now)
        new_blog == rows[Len(rows)]
    IN  /\ session.pc = "yielded"
        /\ IF fault = "raise"
           THEN /\ store' = store
                /\ resp' = Failure("create", 0, blog.title,
                                   create_blog_except(Exception))
                /\ session' = Session("finally", session.pending, session.failed)
           ELSE IF fault = "query" \/ session.failed
           THEN /\ store' = store
                /\ resp' = Failure("create", 0, blog.title,
                                   create_blog_except(SQLAlchemyError))
                /\ session' = Session("finally", session.pending, session.failed)
           ELSE IF existing_blog # {}
           THEN /\ fault = NoFault
                /\ store' = store
                /\ resp' = Failure("create", 0, blog.title,
                      create_blog_except(
                          HTTPException(HTTP_409_CONFLICT, DuplicateTitleDetail)))
                /\ session' = Session("finally", session.pending, session.failed)
           ELSE IF fault = "commit"
           THEN /\ store' = store
                /\ resp' = Failure("create", 0, blog.title,
                                   create_blog_except(SQLAlchemyError))
                /\ session' = Session("finally", pending, TRUE)
           ELSE /\ Len(rows) <= MaxRows
                /\ IF IntegrityError(rows)
                   THEN /\ store' = store
                        /\ resp' = Failure("create", 0, blog.title,
                                           create_blog_except(SQLAlchemyError))
                        /\ session' = Session("finally", pending, TRUE)
                   ELSE /\ store' = rows
                        /\ resp' = IF fault = "refresh"
                                   THEN Failure("create", 0, blog.title,
                                            create_blog_except(SQLAlchemyError))
                                   ELSE Success("create", new_blog.id, blog.title,
                                            HTTP_201_CREATED,
                                            BlogResponseSchema(new_blog))
                        /\ session' = Session("finally", <<>>, FALSE)

update_blog_session(id, blog_update, now, fault) ==
    LET blog == query_active_id(store, id)
        update_data == model_dump(blog_update)
        flushed == flush_new(store, session.pending, now)
        new == onupdate(store[id],
                        setattr_all(store[id], blog_update, update_data), now)
        rows == [flushed EXCEPT ![id] = new]
    IN  /\ session.pc = "yielded"
        /\ IF fault = "raise"
           THEN /\ store' = store
                /\ resp' = Failure("update", id, blog_update.title,
                                   update_blog_except(Exception))
                /\ session' = Session("finally", <<>>, FALSE)
           ELSE IF fault = "query" \/ session.failed
           THEN /\ store' = store
                /\ resp' = Failure("update", id, blog_update.title,
                                   update_blog_except(SQLAlchemyError))
                /\ session' = Session("finally", <<>>, FALSE)
           ELSE IF blog = {}
           THEN /\ fault = NoFault
                /\ store' = store
                /\ resp' = Failure("update", id, blog_update.title,
                      update_blog_except(
                          HTTPException(HTTP_404_NOT_FOUND, NotFoundDetail)))
                /\ session' = Session("finally", session.pending, session.failed)
           ELSE IF /\ "title" \in update_data
                   /\ blog_update.title # store[id].title
                   /\ query_active_title(store, blog_update.title) # {}
           THEN /\ fault = NoFault
                /\ store' = store
                /\ resp' = Failure("update", id, blog_update.title,
                      update_blog_except(
                          HTTPException(HTTP_409_CONFLICT, DuplicateTitleDetail)))
                /\ session' = Session("finally", session.pending, session.failed)
           ELSE IF fault = "commit" \/ IntegrityError(rows)
           THEN /\ store' = store
                /\ resp' = Failure("update", id, blog_update.title,
                                   update_blog_except(SQLAlchemyError))
                /\ session' = Session("finally", <<>>, FALSE)
           ELSE /\ store' = rows
                /\ resp' = IF fault = "refresh"
                           THEN Failure("update", id, blog_update.title,
                                        update_blog_except(SQLAlchemyError))
                           ELSE Success("update", id, blog_update.title,
                                        HTTP_200_OK, BlogResponseSchema(new))
                /\ session' = Session("finally", <<>>, FALSE)

GetDb ==
    /\ get_db
    /\ UNCHANGED <<store, resp, inflight, req, walk>>

CreateInSession ==
    /\ \E blog \in RacingCreates, now \in RacingNow(store),
          fault \in {NoFault} \cup WriteFaults :
            /\ create_blog_session(blog, now, fault)
            /\ req' = Request("create", 0, <<blog>>, <<>>, <<>>, fault)
    /\ UNCHANGED <<inflight, walk>>

UpdateInSession ==
    /\ \E id \in Ids(store), blog_update \in RacingUpdates,
          now \in RacingNow(store), fault \in {NoFault} \cup WriteFaults :
            /\ update_blog_session(id, blog_update, now, fault)
            /\ req' = Request("update", id, <<blog_update>>, <<>>, <<>>, fault)
    /\ UNCHANGED <<inflight, walk>>

Finally ==
    /\ session.pc = "finally"
    /\ session' = close(session)
    /\ UNCHANGED <<store, resp, inflight, req, walk>>

NextSession == GetDb \/ CreateInSession \/ UpdateInSession \/ Finally

SpecSession == Init /\ [][NextSession]_vars

(***************************************************************************)
(* Properties.  A step that changes resp is a request: resp' tells which   *)
(* operation ran, the id or title it addressed and what the client got;    *)
(* the unprimed store is the table the request found.                      *)
(***************************************************************************)
ActiveIds(rows) == {i \in DOMAIN rows : rows[i].is_deleted = FALSE}
DeletedIds(rows) == {i \in DOMAIN rows : rows[i].is_deleted = TRUE}
ActiveTitles(rows) == {rows[i].title : i \in ActiveIds(rows)}
DeletedTitles(rows) == {rows[i].title : i \in DeletedIds(rows)}

\* C1: a create whose title is the title of an active post fails with 409
\* 'A blog post with this title already exists.' and adds no row.
C1_CreateActiveTitleConflict ==
    [][(resp'.op = "create" /\ resp'.title \in ActiveTitles(store))
        => /\ resp'.status = 409
           /\ resp'.detail = "A blog post with this title already exists."
           /\ store' = store]_vars

C1_Witness ==
    /\ resp.op = "create"
    /\ resp.status = 409
    /\ resp.title \in ActiveTitles(store)

\* C2: a create whose title is held only by soft-deleted posts succeeds with
\* 201 and adds a new active post with a new id.
C2_CreateSoftDeletedTitleSucceeds ==
    [][(/\ resp'.op = "create"
        /\ resp'.title \in DeletedTitles(store)
        /\ resp'.title \notin ActiveTitles(store))
        => /\ resp'.status = 201
           /\ Len(store') = Len(store) + 1
           /\ resp'.id = Len(store')
           /\ store'[resp'.id].title = resp'.title
           /\ store'[resp'.id].is_deleted = FALSE]_vars

\* C3: in every reachable state no two active posts have the same title,
\* also when an update's check and its commit are separated by other requests.
C3_ActiveTitlesUnique ==
    \A i, j \in DOMAIN store :
        (/\ store[i].is_deleted = FALSE
         /\ store[j].is_deleted = FALSE
         /\ store[i].title = store[j].title) => i = j

C3_Witness ==
    /\ resp.op = "update"
    /\ resp.status = 500
    /\ resp.id \in ActiveIds(store)
    /\ \E j \in ActiveIds(store) \ {resp.id} : store[j].title = resp.title

\* C4: a read of an id that does not exist or whose post is soft-deleted
\* fails with 404 'Blog post not found.'.
C4_ReadMissingIsNotFound ==
    (resp.op = "read" /\ resp.id \notin ActiveIds(store))
        => (resp.status = 404 /\ resp.detail = "Blog post not found.")

\* C5: a delete of an id that never existed or is already soft-deleted
\* returns 404 'Blog post not found.' and leaves the store unchanged.
C5_DeleteMissingIsNotFound ==
    [][(resp'.op = "delete" /\ resp'.id \notin ActiveIds(store))
        => /\ resp'.status = 404
           /\ resp'.detail = "Blog post not found."
           /\ store' = store]_vars

\* C6: an update of an id that does not exist or whose post is soft-deleted
\* fails with 404 'Blog post not found.' and changes no field of any post.
C6_UpdateMissingIsNotFound ==
    [][(resp'.op = "update" /\ resp'.id \notin ActiveIds(store))
        => /\ resp'.status = 404
           /\ resp'.detail = "Blog post not found."
           /\ store' = store]_vars

C6_Witness ==
    /\ resp.op = "update"
    /\ resp.status = 404
    /\ resp.id \in DeletedIds(store)

\* C7: a list response holds no soft-deleted post and its count is the
\* number of active posts.
C7_ListExcludesSoftDeleted ==
    resp.op = "list"
        => /\ \A k \in DOMAIN resp.results :
                resp.results[k].id \in ActiveIds(store)
           /\ resp.count = Cardinality(ActiveIds(store))

C7_Witness ==
    /\ resp.op = "list"
    /\ DeletedIds(store) # {}
    /\ Len(resp.results) = 1
    /\ resp.count = 1

\* C8: a successful delete of an active post sets is_deleted and returns 204,
\* keeps the row and its id, title, excerpt, content, image_url and created_at,
\* and changes no other post; no operation removes a row.
C8_SoftDeleteKeepsRow ==
    [][/\ (resp'.op = "delete" /\ resp'.id \in ActiveIds(store))
            => /\ resp'.status = 204
               /\ DOMAIN store' = DOMAIN store
               /\ store'[resp'.id].is_deleted = TRUE
               /\ \A f \in {"id", "title", "excerpt", "content",
                             "image_url", "created_at"} :
                      store'[resp'.id][f] = store[resp'.id][f]
               /\ \A i \in DOMAIN store \ {resp'.id} : store'[i] = store[i]
       /\ \A i \in DOMAIN store :
            i \in DOMAIN store' /\ store'[i].id = store[i].id]_vars

C8_Witness ==
    /\ resp.op = "delete"
    /\ resp.status = 204
    /\ resp.id \in DeletedIds(store)
    /\ ActiveIds(store) # {}

\* C9: an update never changes a post's is_deleted flag, whatever fields the
\* PATCH body supplies.
C9_UpdateKeepsIsDeleted ==
    [][resp'.op = "update"
        => \A i \in DOMAIN store :
              store'[i].is_deleted = store[i].is_deleted]_vars

\* C10: once a post's is_deleted is true, no request makes it false again.
C10_DeletedIsTerminal ==
    [][\A i \in DOMAIN store :
          store[i].is_deleted = TRUE
              => (i \in DOMAIN store' /\ store'[i].is_deleted = TRUE)]_vars

C10_Witness ==
    /\ resp.op = "update"
    /\ resp.id \in DeletedIds(store)

\* C11: a successful update sets each supplied field among title, excerpt,
\* content and image_url to the supplied value, leaves each unsupplied one
\* with its previous value, and changes no other post.
C11_UpdateIsMerge ==
    [][(req'.op = "update" /\ resp'.op = "update" /\ resp'.status = 200)
        => /\ DOMAIN store' = DOMAIN store
           /\ \A f \in {"title", "excerpt", "content", "image_url"} :
                 store'[req'.id][f] =
                    IF f \in req'.body[1].fields_set
                    THEN req'.body[1][f] ELSE store[req'.id][f]
           /\ \A i \in DOMAIN store \ {req'.id} : store'[i] = store[i]]_vars

C11_Witness ==
    /\ req.op = "update"
    /\ resp.status = 200
    /\ req.body[1].fields_set = {"excerpt"}
    /\ store[req.id].excerpt = "excerpt-b"
    /\ Len(store) = 2

\* C12: an update supplying a title that differs from the post's current title
\* and is the title of another active post fails with 409 and leaves the store
\* unchanged, whatever other fields it supplies; an update supplying the
\* post's own current title does not fail with 409.
C12_UpdateTitleConflict ==
    [][(/\ req'.op = "update" /\ resp'.op = "update"
        /\ req'.id \in ActiveIds(store)
        /\ "title" \in req'.body[1].fields_set)
        => /\ (/\ req'.body[1].title # store[req'.id].title
               /\ \E j \in ActiveIds(store) \ {req'.id} :
                      store[j].title = req'.body[1].title)
                => /\ resp'.status = 409
                   /\ resp'.detail = "A blog post with this title already exists."
                   /\ store' = store
           /\ req'.body[1].title = store[req'.id].title
                => resp'.status # 409]_vars

C12_Witness ==
    /\ req.op = "update"
    /\ resp.status = 409
    /\ req.id \in ActiveIds(store)
    /\ "excerpt" \in req.body[1].fields_set
    /\ req.body[1].excerpt # store[req.id].excerpt

\* C13: an update of an active post that changes its title to a title held
\* only by soft-deleted posts succeeds with 200 and persists the new title.
C13_UpdateToSoftDeletedTitle ==
    [][(/\ req'.op = "update" /\ resp'.op = "update"
        /\ req'.id \in ActiveIds(store)
        /\ "title" \in req'.body[1].fields_set
        /\ req'.body[1].title # store[req'.id].title
        /\ req'.body[1].title \in DeletedTitles(store)
        /\ req'.body[1].title \notin ActiveTitles(store))
        => /\ resp'.status = 200
           /\ store'[req'.id].title = req'.body[1].title]_vars

\* C14: in a list response next is non-null iff (page - 1) * page_size +
\* page_size < count and is then the link to page + 1 with the same page_size;
\* previous is non-null iff page > 1 and is then the link to page - 1 with the
\* same page_size.
C14_NextAndPrevious ==
    (req.op = "list" /\ resp.op = "list")
        => /\ (resp.next # "None")
                <=> ((req.page[1] - 1) * req.page_size[1] + req.page_size[1] < resp.count)
           /\ (resp.next # "None")
                => resp.next = "/api/v1/blogs?page=" \o ToString(req.page[1] + 1)
                                \o "&page_size=" \o ToString(req.page_size[1])
           /\ (resp.previous # "None") <=> (req.page[1] > 1)
           /\ (resp.previous # "None")
                => resp.previous = "/api/v1/blogs?page=" \o ToString(req.page[1] - 1)
                                    \o "&page_size=" \o ToString(req.page_size[1])

C14_Witness ==
    /\ req.op = "list"
    /\ req.page = <<2>>
    /\ req.page_size = <<1>>
    /\ resp.count = 3
    /\ resp.next = "/api/v1/blogs?page=3&page_size=1"
    /\ resp.previous = "/api/v1/blogs?page=1&page_size=1"

\* C15: when a client has read pages 1..ceil(count / page_size) with one
\* page_size and the table did not change in between, the results it
\* collected hold every active post exactly once, in descending created_at.
C15_PagesCoverActivePosts ==
    LET count == Cardinality(ActiveIds(store))
    IN  (/\ walk.pages >= 1
         /\ (walk.pages - 1) * walk.page_size < count
         /\ walk.pages * walk.page_size >= count)
            => /\ Len(walk.results) = count
               /\ {walk.results[k].id : k \in DOMAIN walk.results}
                     = ActiveIds(store)
               /\ \A k, l \in DOMAIN walk.results :
                     k < l => walk.results[k].created_at
                                 >= walk.results[l].created_at

\* C16: in a list response, posts with equal created_at come in insertion
\* order, the one with the smaller id first.
C16_TiesOrderedById ==
    resp.op = "list"
        => \A k, l \in DOMAIN resp.results :
              (/\ k < l
               /\ resp.results[k].created_at = resp.results[l].created_at)
                  => resp.results[k].id < resp.results[l].id

\* C17: when the commit of a create, an update or a delete fails, by a fault
\* of the storage or by a constraint it rejects, the table is the one the
\* request found (no row added, no field changed, no flag set) and the
\* response is a failure, never a success.
C17_FailedCommitLeavesNoEffect ==
    [][(/\ req'.op \in {"create", "update", "delete"}
        /\ resp'.op = req'.op
        /\ \/ req'.fault = "commit"
           \/ (req'.fault = "none" /\ resp'.detail = "Database error occurred."))
        => /\ store' = store
           /\ resp'.status \notin {200, 201, 204}]_vars

C17_Witness ==
    /\ req.op = "update"
    /\ req.fault = "commit"
    /\ resp.status = 500
    /\ req.id \in ActiveIds(store)
    /\ "excerpt" \in req.body[1].fields_set
    /\ req.body[1].excerpt # store[req.id].excerpt

\* C18: in each of the five operations a storage error ends the request with
\* 500 'Database error occurred.' and any other unexpected exception with 500
\* 'Internal server error.'.
C18_GenericErrorDetails ==
    /\ req.fault \in {"query", "commit", "refresh"}
          => (resp.status = 500 /\ resp.detail = "Database error occurred.")
    /\ req.fault = "raise"
          => (resp.status = 500 /\ resp.detail = "Internal server error.")

\* C19: a create or an update whose title has a length outside 10..255,
\* whose excerpt has a length outside 20..300 or whose image_url is longer
\* than 255, and a create that lacks a required field, gets 422 and leaves the
\* table as it is, also when the storage would fail; every other body, one
\* with a title of exactly 255 or an excerpt of exactly 300 characters
\* included, is not rejected with 422.
C19_SchemaValidation ==
    [][(req'.op \in {"create", "update"} /\ resp'.op = req'.op)
        => LET body == req'.body[1]
               invalid ==
                   \/ /\ body.title # "None"
                      /\ (Len(body.title) < 10 \/ Len(body.title) > 255)
                   \/ /\ body.excerpt # "None"
                      /\ (Len(body.excerpt) < 20 \/ Len(body.excerpt) > 300)
                   \/ /\ body.image_url # "None"
                      /\ Len(body.image_url) > 255
                   \/ /\ req'.op = "create"
                      /\ \E f \in {"title", "excerpt", "content", "image_url"} :
                            body[f] = "None"
           IN  /\ invalid => (resp'.status = 422 /\ store' = store)
               /\ ~invalid => resp'.status # 422]_vars

C19_Witness ==
    /\ req.op = "update"
    /\ req.id \in ActiveIds(store)
    /\ req.body[1].fields_set = {"title", "excerpt"}
    /\ Len(req.body[1].title) = 256
    /\ Len(req.body[1].excerpt) = 300
    /\ req.fault = "query"
    /\ resp.status = 422

\* C20: a list request with page < 1 or page_size outside 1..100 gets 422,
\* also when the storage would fail; every other one is answered with the
\* page the parameters name, an omitted page counting as 1 and an omitted
\* page_size as 10.
C20_ListParameters ==
    (req.op = "list" /\ resp.op = "list")
        => LET invalid ==
                   \/ req.page # <<>> /\ req.page[1] < 1
                   \/ /\ req.page_size # <<>>
                      /\ (req.page_size[1] < 1 \/ req.page_size[1] > 100)
               page == IF req.page = <<>> THEN 1 ELSE req.page[1]
               page_size == IF req.page_size = <<>> THEN 10 ELSE req.page_size[1]
               rest == resp.count - (page - 1) * page_size
           IN  /\ invalid => resp.status = 422
               /\ (~invalid /\ req.fault = "none")
                    => /\ resp.status = 200
                       /\ Len(resp.results) =
                             IF rest < 0 THEN 0
                             ELSE IF rest < page_size THEN rest ELSE page_size
                       /\ resp.next =
                             IF page * page_size < resp.count
                             THEN "/api/v1/blogs?page=" \o ToString(page + 1)
                                    \o "&page_size=" \o ToString(page_size)
                             ELSE "None"
                       /\ resp.previous =
                             IF page > 1
                             THEN "/api/v1/blogs?page=" \o ToString(page - 1)
                                    \o "&page_size=" \o ToString(page_size)
                             ELSE "None"
               /\ ~invalid => resp.status # 422

C20_Witness ==
    /\ req.op = "list"
    /\ req.page = <<2>>
    /\ req.page_size = <<>>
    /\ resp.count = 2
    /\ resp.status = 200
    /\ resp.previous = "/api/v1/blogs?page=1&page_size=10"

\* C21: no request changes the created_at of a post, and every post's
\* updated_at is at least its created_at.
C21_CreatedAtImmutable ==
    [][/\ \A i \in DOMAIN store :
            /\ i \in DOMAIN store'
            /\ store'[i].created_at = store[i].created_at
       /\ \A i \in DOMAIN store' :
            store'[i].updated_at >= store'[i].created_at]_vars

C21_Witness ==
    /\ resp.op = "update"
    /\ resp.status = 200
    /\ store[resp.id].updated_at > store[resp.id].created_at

\* C22: after an update that returns 200, whatever its body, and after a
\* delete that returns 204, the post's updated_at is the time of the request.
C22_UpdatedAtRefreshed ==
    [][(/\ req'.op \in {"update", "delete"}
        /\ resp'.op = req'.op
        /\ resp'.status \in {200, 204})
        => store'[req'.id].updated_at = req'.at]_vars

\* C23: no two rows, active or soft-deleted, have the same id, and no request
\* changes the id of a row or removes a row.
C23_IdsUniqueAndFixed ==
    [][/\ \A i \in DOMAIN store :
            /\ i \in DOMAIN store'
            /\ store'[i].id = store[i].id
       /\ \A i, j \in DOMAIN store' :
            store'[i].id = store'[j].id => i = j]_vars

C23_Witness ==
    /\ resp.op = "create"
    /\ resp.status = 201
    /\ DeletedIds(store) # {}
    /\ resp.id \notin DeletedIds(store)
    /\ store[resp.id].id = resp.id

\* C24: a create that returns 201 adds exactly one row, with is_deleted false
\* whatever the body's is_deleted and with the body's title, excerpt, content
\* and image_url, returns that row, and changes no existing row.
C24_CreatePersistsInput ==
    [][(req'.op = "create" /\ resp'.op = "create" /\ resp'.status = 201)
        => /\ Len(store') = Len(store) + 1
           /\ \A i \in DOMAIN store : store'[i] = store[i]
           /\ store'[Len(store')].is_deleted = FALSE
           /\ \A f \in {"title", "excerpt", "content", "image_url"} :
                 store'[Len(store')][f] = req'.body[1][f]
           /\ resp'.body = <<store'[Len(store')]>>]_vars

C24_Witness ==
    /\ req.op = "create"
    /\ resp.status = 201
    /\ req.body[1].is_deleted = TRUE
    /\ Len(store) = 2
    /\ store[2].is_deleted = FALSE
    /\ store[2].title = req.body[1].title

\* The titles that POST requests, or PATCH requests, have checked and not
\* yet committed.
CheckedByCreate(p) ==
    IF inflight[p].pc = "commit" /\ inflight[p].op = "create"
    THEN {inflight[p].blog[1].title} ELSE {}

CheckedByUpdate(w) ==
    IF inflight[w].pc = "commit" /\ "title" \in model_dump(inflight[w].blog_update[1])
    THEN {inflight[w].blog_update[1].title} ELSE {}

\* C25: no lock spans a title check and the commit after it: while a create
\* or an update has passed its check of a title and has not committed, and
\* no row has that title, the title check of another create of that title
\* passes too, so both are past their checks before either has committed.
C25_CheckAndCommitNotLocked ==
    \A q \in Processes, blog \in RacingCreates :
        (/\ inflight[q].pc = "idle"
         /\ query_title(store, blog.title) = {}
         /\ \/ \E p \in Processes \ {q} : blog.title \in CheckedByCreate(p)
            \/ \E w \in Workers : blog.title \in CheckedByUpdate(w))
        => ENABLED (/\ create_query(q, blog)
                    /\ inflight'[q].pc = "commit"
                    /\ UNCHANGED <<req, walk, session>>)

C25_Witness ==
    \E title \in Titles :
        /\ query_title(store, title) = {}
        /\ \A p \in Processes : title \in CheckedByCreate(p)
        /\ \A w \in Workers : title \in CheckedByUpdate(w)

\* A POST, or a renaming PATCH, that has passed its title check and is about
\* to commit a title that another row has taken since.
CreateLoses(p) ==
    /\ CheckedByCreate(p) # {}
    /\ query_title(store, inflight[p].blog[1].title) # {}

UpdateLoses(w) ==
    /\ CheckedByUpdate(w) # {}
    /\ inflight[w].blog_update[1].title # inflight[w].blog[1].title
    /\ \E i \in query_title(store, inflight[w].blog_update[1].title) :
            i # inflight[w].id

\* C26: under every interleaving of creates and updates no two rows, active
\* or soft-deleted, have the same title, and a request that commits a title
\* taken since its own check is answered 500 'Database error occurred.' and
\* leaves the table as it was.
C26_UniqueConstraintDecidesRace ==
    [][/\ \A i, j \in DOMAIN store' :
            store'[i].title = store'[j].title => i = j
       /\ \A p \in Processes :
            (CreateLoses(p) /\ inflight'[p].pc = "idle")
                => /\ resp'.op = "create"
                   /\ resp'.status = 500
                   /\ resp'.detail = "Database error occurred."
                   /\ store' = store
       /\ \A w \in Workers :
            (UpdateLoses(w) /\ inflight'[w].pc = "idle")
                => /\ resp'.op = "update"
                   /\ resp'.status = 500
                   /\ resp'.detail = "Database error occurred."
                   /\ store' = store]_vars

C26_Witness ==
    /\ resp.op = "create"
    /\ resp.status = 500
    /\ resp.detail = "Database error occurred."
    /\ \E i \in DOMAIN store : /\ store[i].title = resp.title
                               /\ store[i].is_deleted = TRUE

\* C27: under every interleaving, the title, excerpt, content and image_url
\* of a soft-deleted post never change: an update that loaded the post while
\* it was active persists nothing after the delete.
C27_DeletedPostFrozen ==
    [][\A i \in DOMAIN store :
          store[i].is_deleted
              => /\ i \in DOMAIN store'
                 /\ \A f \in {"title", "excerpt", "content", "image_url"} :
                        store'[i][f] = store[i][f]]_vars

\* The step answers a DELETE: a process commits one, or a lookup fails.
DeleteAnswered ==
    /\ resp'.op = "delete"
    /\ \/ \E p \in Processes : /\ inflight[p].pc = "commit"
                               /\ inflight[p].op = "delete"
                               /\ inflight'[p].pc = "idle"
       \/ inflight' = inflight /\ resp' # resp

\* C28: under every interleaving of deletes of one post at most one is
\* answered 204: a delete answered when the post is already soft-deleted,
\* by another delete that has committed, is answered 404.
C28_OneDeleteSucceeds ==
    [][(DeleteAnswered /\ resp'.id \in DeletedIds(store)) => resp'.status = 404]_vars

\* The handler of the logged request has run in this step.
HandlerRan == session.pc = "yielded" /\ session'.pc = "finally"

\* C29: on every exit path of a request its session is closed: between two
\* requests the session holds no pending row and no failed transaction, and
\* every request changes the table and is answered as it is on a session
\* that holds nothing of an earlier request.
C29_SessionClosedOnEveryPath ==
    [][/\ session'.pc = "idle" => (session'.pending = <<>> /\ ~session'.failed)
       /\ (HandlerRan /\ req'.op = "create")
            => \E now \in RacingNow(store) :
                   IF req'.fault = NoFault
                   THEN create_blog(req'.body[1], now)
                   ELSE create_blog_fault(req'.body[1], now, req'.fault)
       /\ (HandlerRan /\ req'.op = "update")
            => \E now \in RacingNow(store) :
                   IF req'.fault = NoFault
                   THEN update_blog(req'.id, req'.body[1], now)
                   ELSE update_blog_fault(req'.id, req'.body[1], now,
                                          req'.fault)]_vars

C29_Witness ==
    /\ session.pc = "finally"
    /\ session.pending # <<>>
    /\ session.failed
    /\ req.op = "create"
    /\ resp.status = 500
    /\ store # <<>>

====
